---- MODULE Spec2Model ----
(***************************************************************************)
(* Model of plippe/tic-tac-toe-rust: the Board engine (src/lib/board.rs),  *)
(* the Player, Coordinates and Game value types, and the turn state        *)
(* machine that main drives (src/main.rs).                                 *)
(***************************************************************************)
EXTENDS Integers, Sequences, FiniteSets, TLC

VARIABLES game, state, pc, last

vars == <<game, state, pc, last>>

(***************************************************************************)
(* Bounds of the model                                                     *)
(***************************************************************************)

\* How far outside the board the typed coordinates range.
Margin == 1

(***************************************************************************)
(* Result<T, String> and Option<T>                                         *)
(***************************************************************************)

Ok(v) == [ok |-> TRUE, val |-> v]

Err(e) == [ok |-> FALSE, err |-> e]

None == "None"

(***************************************************************************)
(* i8 arithmetic (two's complement, 8 bits)                                *)
(***************************************************************************)

I8_MIN == -128

I8_MAX == 127

\* The value an 8-bit register holds after computing v.
Wrap8(v) == ((v + 128) % 256) - 128

(***************************************************************************)
(* src/lib/player.rs                                                       *)
(***************************************************************************)

Player == {"X", "O"}

first == "X"

\* next returning the player it was given.
next_same(p) == p

next(p) == CASE p = "O" -> "X"
             [] p = "X" -> "O"

(***************************************************************************)
(* src/lib/game.rs                                                         *)
(***************************************************************************)

TIC_TAC_TOE == [min_x |-> -1, max_x |-> 1, min_y |-> -1, max_y |-> 1, goal |-> 3]

(***************************************************************************)
(* src/lib/coordinates.rs                                                  *)
(***************************************************************************)

Coordinates(x, y) == [x |-> x, y |-> y]

Digits == <<"0", "1", "2", "3", "4", "5", "6", "7", "8", "9">>

IsDigit(ch) == \E i \in 1..10 : Digits[i] = ch

DigitVal(ch) == (CHOOSE i \in 1..10 : Digits[i] = ch) - 1

\* An optional minus sign removed.
unsigned(s) == IF Len(s) > 0 /\ s[1] = "-" THEN Tail(s) ELSE s

AllDigits(s) == Len(s) > 0 /\ \A i \in 1..Len(s) : IsDigit(s[i])

\* -?[0-9]+
IsIntLiteral(s) == AllDigits(unsigned(s))

RECURSIVE DigitsVal(_)
DigitsVal(s) ==
    IF Len(s) = 0 THEN 0
    ELSE 10 * DigitsVal(SubSeq(s, 1, Len(s) - 1)) + DigitVal(s[Len(s)])

\* The integer a literal -?[0-9]+ writes.
literal_value(s) == IF s[1] = "-" THEN 0 - DigitsVal(Tail(s)) ELSE DigitsVal(s)

in_i8(v) == IF v >= I8_MIN /\ v <= I8_MAX THEN Ok(v) ELSE Err("number out of range")

\* str::parse::<i8>() on a string matching -?[0-9]+ : an error when the
\* value does not fit eight bits.
parse_i8(s) == in_i8(literal_value(s))

\* The positions of a comma that splits s into two integer literals: the
\* matches of the regex ^(-?[0-9]+),(-?[0-9]+)$ on the whole string.
regex_captures(s) ==
    {k \in 1..Len(s) : /\ s[k] = ","
                       /\ IsIntLiteral(SubSeq(s, 1, k - 1))
                       /\ IsIntLiteral(SubSeq(s, k + 1, Len(s)))}

\* match (x, y) { (Some(x), Some(y)) => Some((x, y)), _ => None }
both_parsed(x, y) ==
    IF ~x.ok \/ ~y.ok
    THEN Err("Coordinates can't be parsed")
    ELSE Ok(Coordinates(x.val, y.val))

parse_captures(s, k) ==
    both_parsed(parse_i8(SubSeq(s, 1, k - 1)), parse_i8(SubSeq(s, k + 1, Len(s))))

captures_to_coordinates(s, splits) ==
    IF splits = {} THEN Err("Coordinates can't be parsed")
    ELSE parse_captures(s, CHOOSE j \in splits : TRUE)

\* Coordinates::from_str
from_str(s) == captures_to_coordinates(s, regex_captures(s))

\* bool::from_str : exactly "true" or "false".
bool_from_str(s) ==
    IF s = <<"t", "r", "u", "e">> THEN Ok(TRUE)
    ELSE IF s = <<"f", "a", "l", "s", "e">> THEN Ok(FALSE)
    ELSE Err("provided string was not true or false")

(***************************************************************************)
(* src/lib/board.rs                                                        *)
(***************************************************************************)

\* on_board with the upper x bound taken as exclusive.
on_board_exclusive(b, c) ==
    /\ c.x >= b.min_x
    /\ c.x < b.max_x
    /\ c.y >= b.min_y
    /\ c.y <= b.max_y

\* on_board without the check of the upper y bound.
on_board_no_max_y(b, c) ==
    /\ c.x >= b.min_x
    /\ c.x <= b.max_x
    /\ c.y >= b.min_y

on_board(b, c) ==
    /\ c.x >= b.min_x
    /\ c.x <= b.max_x
    /\ c.y >= b.min_y
    /\ c.y <= b.max_y

\* The empty HashMap.
EmptyHash == [c \in {} |-> None]

new(g) ==
    [hash |-> EmptyHash,
     min_x |-> g.min_x, max_x |-> g.max_x,
     min_y |-> g.min_y, max_y |-> g.max_y]

contains_key(h, c) == c \in DOMAIN h

\* HashMap::get
get(h, c) == IF c \in DOMAIN h THEN h[c] ELSE None

\* HashMap::insert on a new map instead of the clone.
hash_insert_fresh(h, c, p) == [k \in {c} |-> p]

\* HashMap::insert on the clone
hash_insert(h, c, p) == [k \in (DOMAIN h) \cup {c} |-> IF k = c THEN p ELSE h[k]]

\* insert without the occupancy check.
insert_overwrite(b, c, p) ==
    IF ~on_board(b, c) THEN Err("OutOfBounds")
    ELSE Ok([b EXCEPT !.hash = hash_insert(b.hash, c, p)])

insert(b, c, p) ==
    IF ~on_board(b, c) THEN Err("OutOfBounds")
    ELSE IF contains_key(b.hash, c) THEN Err("AlreadyDefined")
    ELSE Ok([b EXCEPT !.hash = hash_insert(b.hash, c, p)])

\* (lo..=hi).len()
range_len(lo, hi) == IF hi >= lo THEN hi - lo + 1 ELSE 0

\* The draw test with a strict comparison.
is_draw_strict(b) ==
    Cardinality(DOMAIN b.hash) > range_len(b.min_x, b.max_x) * range_len(b.min_y, b.max_y)

is_draw(b) ==
    LET cell_amount == range_len(b.min_x, b.max_x) * range_len(b.min_y, b.max_y)
    IN  Cardinality(DOMAIN b.hash) >= cell_amount

(***************************************************************************)
(* Iterator helpers (std and itertools)                                    *)
(***************************************************************************)

\* A call that returned v, and a call that panicked (the process aborts).
Returned(v) == [panic |-> FALSE, val |-> v]

Panicked(msg) == [panic |-> TRUE, msg |-> msg]

\* lo..=hi collected in order
RangeInclusive(lo, hi) == [i \in 1..range_len(lo, hi) |-> lo + i - 1]

\* Iterator::rev
rev(s) == [i \in 1..Len(s) |-> s[Len(s) - i + 1]]

\* slice::contains
contains(s, e) == \E i \in 1..Len(s) : s[i] = e

\* itertools::zip_eq : panics when one side ends before the other.
zip_eq(s, t) ==
    IF Len(s) # Len(t)
    THEN Panicked("itertools: .zip_eq() reached end of one iterator before the other")
    ELSE Returned([i \in 1..Len(s) |-> <<s[i], t[i]>>])

\* itertools::unique : the first occurrence of every element, in order.
RECURSIVE unique(_)
unique(s) ==
    IF Len(s) = 0 THEN <<>>
    ELSE LET init == unique(SubSeq(s, 1, Len(s) - 1))
         IN  IF contains(init, s[Len(s)]) THEN init ELSE Append(init, s[Len(s)])

\* itertools::all_equal
all_equal(s) == \A i, j \in 1..Len(s) : s[i] = s[j]

\* slice::windows(size) with size = goal as usize : panics on size 0; a
\* negative goal casts to a size larger than any slice.
windows(s, goal) ==
    IF goal = 0 THEN Panicked("window size must be non-zero")
    ELSE IF goal < 0 \/ goal > Len(s) THEN Returned(<<>>)
    ELSE Returned([i \in 1..(Len(s) - goal + 1) |-> SubSeq(s, i, i + goal - 1)])

\* Iterator::flat_map over already computed inner sequences.
RECURSIVE flatten(_)
flatten(ss) ==
    IF Len(ss) = 0 THEN <<>> ELSE Head(ss) \o flatten(Tail(ss))

(***************************************************************************)
(* Board::affected_rows and Board::is_winning_move                         *)
(***************************************************************************)

x_size(b) == Wrap8(b.max_x - b.min_x)

y_size(b) == Wrap8(b.max_y - b.min_y)

\* -size..=size
symmetric_range(size) == RangeInclusive(Wrap8(0 - size), size)

\* The vec! of four rows, once both zip_eq have run.
four_rows(horizontal, vertical, descending, ascending) ==
    IF descending.panic THEN descending
    ELSE IF ascending.panic THEN ascending
    ELSE Returned(<<horizontal, vertical, descending.val, ascending.val>>)

\* The four raw rows of (i8, i8) tuples built from the offsets xs and ys.
offset_rows(xs, ys, c) ==
    four_rows([i \in 1..Len(xs) |-> <<Wrap8(xs[i] + c.x), c.y>>],
              [i \in 1..Len(ys) |-> <<c.x, Wrap8(ys[i] + c.y)>>],
              zip_eq(xs, ys),
              zip_eq(xs, rev(ys)))

raw_rows(b, c) ==
    offset_rows(symmetric_range(x_size(b)), symmetric_range(y_size(b)), c)

\* One raw row turned into Coordinates and restricted to the board.
on_board_row(b, row) ==
    SelectSeq([i \in 1..Len(row) |-> Coordinates(row[i][1], row[i][2])],
              LAMBDA k : on_board(b, k))

\* The rows without duplicates, whether they contain c or not.
kept_rows_unfiltered(rows, c) == unique(rows)

\* The rows that still contain c, without duplicates.
kept_rows(rows, c) == unique(SelectSeq(rows, LAMBDA row : contains(row, c)))

filter_rows(b, c, raw) ==
    IF raw.panic THEN raw
    ELSE Returned(kept_rows([i \in 1..Len(raw.val) |-> on_board_row(b, raw.val[i])], c))

affected_rows(b, c) == filter_rows(b, c, raw_rows(b, c))

\* The windows of one row that contain c.
containing(w, c) ==
    IF w.panic THEN w
    ELSE Returned(SelectSeq(w.val, LAMBDA window : contains(window, c)))

row_windows(row, c, goal) == containing(windows(row, goal), c)

\* The occupants of a window: Option<&Player> per cell.
occupants(b, window) == [i \in 1..Len(window) |-> get(b.hash, window[i])]

\* The test of a window without the check for empty cells.
winning_sequence_gaps(sequence) == all_equal(sequence)

\* sequence.iter().all_equal() && !sequence.contains(&None)
winning_sequence(sequence) == all_equal(sequence) /\ ~contains(sequence, None)

any_winning(b, all) ==
    \E i \in 1..Len(all) : winning_sequence(occupants(b, all[i]))

\* flat_map over the rows: the first panic, or all windows in order.
flat_windows(b, per_row) ==
    IF \E i \in 1..Len(per_row) : per_row[i].panic
    THEN per_row[CHOOSE i \in 1..Len(per_row) : per_row[i].panic]
    ELSE Returned(any_winning(b, flatten([i \in 1..Len(per_row) |-> per_row[i].val])))

winning_in(b, c, goal, rows) ==
    IF rows.panic THEN rows
    ELSE flat_windows(b, [i \in 1..Len(rows.val) |-> row_windows(rows.val[i], c, goal)])

is_winning_move(b, c, goal) == winning_in(b, c, goal, affected_rows(b, c))

(***************************************************************************)
(* src/lib/state.rs                                                        *)
(***************************************************************************)

StartGame == [tag |-> "StartGame"]

NextTurn(p, b) == [tag |-> "NextTurn", player |-> p, board |-> b]

Won(p) == [tag |-> "Won", player |-> p]

Draw == [tag |-> "Draw"]

EndGame == [tag |-> "EndGame"]

(***************************************************************************)
(* The game configurations played                                          *)
(***************************************************************************)

\* A two by two grid with its origin in a corner.
CORNER_ORIGIN == [min_x |-> 0, max_x |-> 1, min_y |-> 0, max_y |-> 1, goal |-> 2]

\* The tic-tac-toe grid with a run of two to win.
TWO_IN_A_ROW == [min_x |-> -1, max_x |-> 1, min_y |-> -1, max_y |-> 1, goal |-> 2]

\* A grid wider than it is high.
WIDE == [min_x |-> 0, max_x |-> 2, min_y |-> 0, max_y |-> 1, goal |-> 2]

\* A single cell.
SINGLE == [min_x |-> 0, max_x |-> 0, min_y |-> 0, max_y |-> 0, goal |-> 1]

Configs == {TIC_TAC_TOE, CORNER_ORIGIN, TWO_IN_A_ROW, WIDE, SINGLE}

(***************************************************************************)
(* Standard input: the lines the players type                              *)
(***************************************************************************)

\* What io::stdin().read_line leaves in the buffer, or an I/O error.
Line(text) == [io |-> TRUE, text |-> text]

IoError == [io |-> FALSE]

\* i8 Display, as format!("{},{}", x, y) writes a component.
RECURSIVE NatStr(_)
NatStr(n) ==
    IF n < 10 THEN <<Digits[n + 1]>>
    ELSE Append(NatStr(n \div 10), Digits[(n % 10) + 1])

to_string(v) == IF v < 0 THEN <<"-">> \o NatStr(0 - v) ELSE NatStr(v)

\* The text of a move as a player types it, newline included.
MoveText(x, y) == to_string(x) \o <<",">> \o to_string(y) \o <<"\n">>

\* Lines that are not the text of a coordinate pair, and unusual spellings.
OddLines ==
    { <<>>,
      <<"1", ",", "\n">>,
      <<"a", ",", "b", "\n">>,
      <<"1", "2", "8", ",", "0", "\n">>,
      <<" ", "0", "0", ",", "-", "0", " ", "\n">> }

\* The coordinates typed on board g: every cell of the board and, on each
\* side of it, the cells up to Margin away from the first row and column.
TypedCells(g) ==
    { <<x, y>> : x \in g.min_x..g.max_x, y \in g.min_y..g.max_y }
    \cup { <<x, g.min_y>> : x \in (g.min_x - Margin)..(g.max_x + Margin) }
    \cup { <<g.min_x, y>> : y \in (g.min_y - Margin)..(g.max_y + Margin) }

RetryInputs ==
    { Line(<<"t", "r", "u", "e", "\n">>),
      Line(<<"f", "a", "l", "s", "e", "\n">>),
      Line(<<"y", "e", "s", "\n">>),
      IoError }

\* The lines typed for a move, on any of the boards played.
MoveInputs ==
    { Line(MoveText(c[1], c[2])) : c \in UNION { TypedCells(g) : g \in Configs } }
    \cup { Line(t) : t \in OddLines }
    \cup { IoError }

(***************************************************************************)
(* src/main.rs                                                             *)
(***************************************************************************)

IsWhitespace(ch) == ch \in {" ", "\n", "\t", "\r"}

\* str::trim
RECURSIVE trim_start(_)
trim_start(s) ==
    IF Len(s) > 0 /\ IsWhitespace(s[1]) THEN trim_start(Tail(s)) ELSE s

RECURSIVE trim_end(_)
trim_end(s) ==
    IF Len(s) > 0 /\ IsWhitespace(s[Len(s)])
    THEN trim_end(SubSeq(s, 1, Len(s) - 1)) ELSE s

trim(s) == trim_end(trim_start(s))

\* map_err of the parse result.
parsed(r) == IF r.ok THEN r ELSE Err("Input can't be parsed")

\* parse::<A>() for the two types main reads: Coordinates and bool.
parse(text, A) ==
    IF A = "Coordinates" THEN from_str(text) ELSE bool_from_str(text)

\* read_input::<A>() on the line inp.
read_input(inp, A) ==
    IF ~inp.io THEN Err("Input can't be read") ELSE parsed(parse(trim(inp.text), A))

\* start_game with the second player to move.
start_game_second(g) == NextTurn(next(first), new(g))

start_game(g) == NextTurn(first, new(g))

\* map(|board| (board, coordinates))
with_coordinates(inserted, c) ==
    IF ~inserted.ok THEN inserted
    ELSE Ok([board |-> inserted.val, coordinates |-> c])

\* and_then(|coordinates| board.insert(&coordinates, &player) ...)
insert_read(player, board, coordinates) ==
    IF ~coordinates.ok THEN coordinates
    ELSE with_coordinates(insert(board, coordinates.val, player), coordinates.val)

\* The coordinates read and the board after the insert, or the first error.
read_and_insert(player, board, move) ==
    insert_read(player, board, read_input(move, "Coordinates"))

\* unwrap_or(false)
unwrap_or_false(r) == IF r.ok THEN r.val ELSE FALSE

\* The retry arm handing the turn to the other player.
retry_state_next(player, board, retry) ==
    IF retry THEN NextTurn(next(player), board) ELSE EndGame

\* match ... { true => State::NextTurn(..), false => State::EndGame }
retry_state(player, board, retry) ==
    IF retry THEN NextTurn(player, board) ELSE EndGame

\* The closure of unwrap_or_else: ask whether to try again.
try_again(player, board, answer) ==
    retry_state(player, board, unwrap_or_false(read_input(answer, "bool")))

\* The branches of the closure of map with the draw tested first.
after_move_draw_first(player, new_board, winning) ==
    IF winning.panic THEN winning
    ELSE IF is_draw(new_board) THEN Returned(Draw)
    ELSE IF winning.val THEN Returned(Won(player))
    ELSE Returned(NextTurn(next(player), new_board))

\* The branches of the closure of map with the turn left with the mover.
after_move_same_player(player, new_board, winning) ==
    IF winning.panic THEN winning
    ELSE IF winning.val THEN Returned(Won(player))
    ELSE IF is_draw(new_board) THEN Returned(Draw)
    ELSE Returned(NextTurn(player, new_board))

\* The branches of the closure of map, given what is_winning_move returned.
after_move(player, new_board, winning) ==
    IF winning.panic THEN winning
    ELSE IF winning.val THEN Returned(Won(player))
    ELSE IF is_draw(new_board) THEN Returned(Draw)
    ELSE Returned(NextTurn(next(player), new_board))

\* The closure of map: the state after an accepted move.
accepted_move(g, player, new_board, coordinates) ==
    after_move(player, new_board, is_winning_move(new_board, coordinates, g.goal))

\* The two arms of next_turn on the result r of reading and inserting.
turn_result(g, player, board, r, answer) ==
    IF r.ok
    THEN accepted_move(g, player, r.val.board, r.val.coordinates)
    ELSE Returned(try_again(player, board, answer))

next_turn(g, player, board, move, answer) ==
    turn_result(g, player, board, read_and_insert(player, board, move), answer)

draw == EndGame

\* won leaving the state as it is.
won_stays(player) == Won(player)

won(player) == EndGame

end_game == EndGame

turn(g, s, move, answer) ==
    CASE s.tag = "StartGame" -> Returned(start_game(g))
      [] s.tag = "NextTurn"  -> next_turn(g, s.player, s.board, move, answer)
      [] s.tag = "Draw"      -> Returned(draw)
      [] s.tag = "Won"       -> Returned(won(s.player))
      [] s.tag = "EndGame"   -> Returned(end_game)

(***************************************************************************)
(* The main loop: while state != EndGame { state = turn(&game, &state) }   *)
(***************************************************************************)

\* last records the handler call that produced the current state.
NoCall == [op |-> "none"]

Accepted(player, coordinates, board) ==
    [op |-> "accepted", player |-> player, coordinates |-> coordinates, board |-> board]

Rejected(err, retry) == [op |-> "rejected", err |-> err, retry |-> retry]

Init ==
    /\ game \in Configs
    /\ state = StartGame
    /\ pc = "loop"
    /\ last = NoCall

StartGameStep ==
    /\ pc = "loop"
    /\ state # EndGame
    /\ state = StartGame
    /\ state' = start_game(game)
    /\ last' = [op |-> "start_game"]
    /\ UNCHANGED <<game, pc>>

DrawStep ==
    /\ pc = "loop"
    /\ state # EndGame
    /\ state = Draw
    /\ state' = draw
    /\ last' = [op |-> "draw"]
    /\ UNCHANGED <<game, pc>>

WonStep ==
    /\ pc = "loop"
    /\ state # EndGame
    /\ state.tag = "Won"
    /\ state' = won(state.player)
    /\ last' = [op |-> "won"]
    /\ UNCHANGED <<game, pc>>

\* What read_input makes of the lines typed for a move.
ReadMoves == { read_input(move, "Coordinates") : move \in MoveInputs }

\* What read_input and unwrap_or(false) make of the typed answers.
ReadAnswers == { unwrap_or_false(read_input(answer, "bool")) : answer \in RetryInputs }

\* The moves the typed lines amount to: what read_and_insert returns.
MoveResults(player, board) ==
    { insert_read(player, board, coordinates) : coordinates \in ReadMoves }

\* The loop variables after next_turn returned t or panicked.
Assign(t) ==
    IF t.panic
    THEN pc' = "panic" /\ state' = state
    ELSE pc' = pc /\ state' = t.val

\* next_turn on a move that read_and_insert accepted as r.
AcceptedStep(r) ==
    /\ r.ok
    /\ last' = Accepted(state.player, r.val.coordinates, r.val.board)
    /\ Assign(accepted_move(game, state.player, r.val.board, r.val.coordinates))

\* next_turn on a move rejected with r, the answer read as retry.
RejectedStep(r, retry) ==
    /\ ~r.ok
    /\ last' = Rejected(r.err, retry)
    /\ Assign(Returned(retry_state(state.player, state.board, retry)))

\* One iteration on NextTurn: a line is read for the move and, when the
\* move is rejected, a second line for the retry question.  The lines are
\* grouped by what read_input makes of them.
NextTurnStep ==
    /\ pc = "loop"
    /\ state # EndGame
    /\ state.tag = "NextTurn"
    /\ \E r \in MoveResults(state.player, state.board) :
          \/ AcceptedStep(r)
          \/ \E retry \in ReadAnswers : RejectedStep(r, retry)
    /\ UNCHANGED game

\* The loop condition fails and main returns.
MainReturn ==
    /\ pc = "loop"
    /\ state = EndGame
    /\ pc' = "exit"
    /\ UNCHANGED <<game, state, last>>

Next ==
    \/ StartGameStep
    \/ NextTurnStep
    \/ DrawStep
    \/ WonStep
    \/ MainReturn

Spec == Init /\ [][Next]_vars

(***************************************************************************)
(* Vocabulary of the properties                                            *)
(***************************************************************************)

\* The four orientations: row, column, descending and ascending diagonal.
Directions == {<<1, 0>>, <<0, 1>>, <<1, 1>>, <<1, -1>>}

\* The cell i steps from c along direction d.
Step(c, d, i) == Coordinates(c.x + i * d[1], c.y + i * d[2])

\* goal consecutive cells along d, of which c is the one at position k,
\* all on the board and all occupied by player p.
RunAt(b, c, d, k, goal, p) ==
    \A i \in 0..(goal - 1) :
        /\ Step(c, d, i - k).x \in b.min_x..b.max_x
        /\ Step(c, d, i - k).y \in b.min_y..b.max_y
        /\ Step(c, d, i - k) \in DOMAIN b.hash
        /\ b.hash[Step(c, d, i - k)] = p

\* c lies in a run of goal marks of one player in some orientation.
HasRunThrough(b, c, goal) ==
    \E d \in Directions, k \in 0..(goal - 1), p \in Player : RunAt(b, c, d, k, goal, p)

\* Some run of goal marks of one player lies on the board.
HasRun(b, goal) == \E c \in DOMAIN b.hash : HasRunThrough(b, c, goal)

\* The coordinates around and on board b.
Around(b) ==
    { Coordinates(x, y) : x \in (b.min_x - Margin)..(b.max_x + Margin),
                          y \in (b.min_y - Margin)..(b.max_y + Margin) }

\* is_winning_move returned true.
ReturnsTrue(w) == ~w.panic /\ w.val

\* The last call of the loop was next_turn and the move was accepted.
MoveAccepted == last.op = "accepted"

(***************************************************************************)
(* C1: win detection is complete                                           *)
(***************************************************************************)

\* C1: whenever the cell just played lies in a run of goal marks of one
\* player along its row, column or either diagonal of the new board,
\* is_winning_move on that cell returns true.
C1_Complete ==
    MoveAccepted =>
        (HasRunThrough(last.board, last.coordinates, game.goal)
            => ReturnsTrue(is_winning_move(last.board, last.coordinates, game.goal)))

(***************************************************************************)
(* C2: the order of the checks after an accepted move                      *)
(***************************************************************************)

\* The state the stated order gives for player's move giving new_board:
\* Won first, then Draw, then the other player's turn.
OrderedState(player, new_board, winning) ==
    IF winning.val THEN Won(player)
    ELSE IF is_draw(new_board) THEN Draw
    ELSE NextTurn(next(player), new_board)

\* The step is next_turn on NextTurn(player, board) with an accepted move.
AcceptedFrom(player, board) ==
    /\ state = NextTurn(player, board)
    /\ last'.op = "accepted"

\* The accepted move put player's mark on a cell of board and no other.
InsertedBy(player, board) ==
    /\ last'.player = player
    /\ insert(board, last'.coordinates, player) = Ok(last'.board)

\* The loop goes on in the one state that the order gives, whenever
\* is_winning_move returned at all.
ChosenInOrder(player, winning) ==
    ~winning.panic =>
        /\ pc' = "loop"
        /\ state' = OrderedState(player, last'.board, winning)

Boards ==
    IF MoveAccepted THEN {last.board}
    ELSE IF last.op = "start_game" THEN {state.board}
    ELSE {}

\* C3: is_winning_move(c, goal) returns true only for a cell c that lies in
\* a window of goal consecutive collinear on-board cells all occupied by one
\* player; for an empty cell, and for a cell all of whose windows hold a gap
\* or both players, it returns false.
C3_Sound ==
    \A b \in Boards : \A c \in Around(b) :
        ReturnsTrue(is_winning_move(b, c, game.goal)) => HasRunThrough(b, c, game.goal)

\* A detected win while another cell of the winner on the same board, and
\* an empty cell, are reported as not winning.
C3_Witness ==
    /\ MoveAccepted
    /\ ReturnsTrue(is_winning_move(last.board, last.coordinates, game.goal))
    /\ \E c \in DOMAIN last.board.hash :
          /\ last.board.hash[c] = last.player
          /\ is_winning_move(last.board, c, game.goal) = Returned(FALSE)
    /\ \E c \in Around(last.board) :
          /\ c \notin DOMAIN last.board.hash
          /\ is_winning_move(last.board, c, game.goal) = Returned(FALSE)

(***************************************************************************)
(* C4: no win goes undetected over a whole game                            *)
(***************************************************************************)

\* C4: the board of every NextTurn state and the board on which Draw is
\* declared hold no run of goal marks of one player.
C4_NoUndetectedWin ==
    /\ state.tag = "NextTurn" => ~HasRun(state.board, game.goal)
    /\ (state = Draw /\ MoveAccepted) => ~HasRun(last.board, game.goal)

(***************************************************************************)
(* C5: a rejected move never changes the game                              *)
(***************************************************************************)

\* The answers typed to the retry question that say yes.
YesAnswers == { answer \in RetryInputs : answer.io /\ trim(answer.text) = <<"t", "r", "u", "e">> }

\* The coordinates each typed move writes, where it writes a pair.
TypedPair == [move \in MoveInputs |-> IF move.io THEN from_str(trim(move.text)) ELSE Err("unread")]

\* The typed move is no coordinate pair, or names a cell that is off the
\* board or taken.
Refused(player, board, move) ==
    \/ ~TypedPair[move].ok
    \/ ~insert(board, TypedPair[move].val, player).ok

\* next_turn on a refused move returns the same NextTurn(player, board) when
\* the answer says yes and EndGame when it does not.
RefusedKeepsGame(player, board) ==
    \A move \in MoveInputs :
        Refused(player, board, move) =>
            \A answer \in RetryInputs :
                next_turn(game, player, board, move, answer)
                    = Returned(IF answer \in YesAnswers THEN NextTurn(player, board) ELSE EndGame)

\* The turn the last call produced, with its board for the first time.
FreshTurn == state.tag = "NextTurn" /\ last.op \in {"start_game", "accepted"}

\* When next_turn rejects a move the loop goes on in the same state, or in
\* EndGame.
RejectedKeeps ==
    (pc = "loop" /\ state.tag = "NextTurn" /\ last'.op = "rejected") =>
        /\ pc' = "loop"
        /\ state' = IF last'.retry THEN state ELSE EndGame

\* C5: when the move is rejected the next state is the same NextTurn(player,
\* board) if the retry answer is yes and EndGame otherwise, an unreadable
\* answer included; never Won, Draw, the other player or another board.
C5_RejectedKeepsGame ==
    /\ [](FreshTurn => RefusedKeepsGame(state.player, state.board))
    /\ [][RejectedKeeps]_vars

\* A move rejected on a board with marks of both players, then retried.
C5_Witness ==
    /\ last.op = "rejected"
    /\ last.retry
    /\ state.tag = "NextTurn"
    /\ Cardinality(DOMAIN state.board.hash) >= 2

(***************************************************************************)
(* C7: insert succeeds on a free in-bounds cell                            *)
(***************************************************************************)

InBounds(b, c) ==
    b.min_x <= c.x /\ c.x <= b.max_x /\ b.min_y <= c.y /\ c.y <= b.max_y

Free(b, c) == c \notin DOMAIN b.hash

\* C7: on every board, for every free cell c within the four bounds and
\* either player p, insert(c, p) returns a board that maps c to p.
C7_InsertFree ==
    \A b \in Boards : \A c \in Around(b), p \in Player :
        (InBounds(b, c) /\ Free(b, c)) =>
            /\ insert(b, c, p).ok
            /\ c \in DOMAIN insert(b, c, p).val.hash
            /\ insert(b, c, p).val.hash[c] = p

\* A move accepted on a board that already held marks of both players.
C7_Witness ==
    /\ MoveAccepted
    /\ state.tag = "NextTurn"
    /\ Cardinality(DOMAIN state.board.hash) >= 3
    /\ state.board.hash[last.coordinates] = last.player

(***************************************************************************)
(* C8: insert rejects every out-of-bounds coordinate                       *)
(***************************************************************************)

Outside(b, c) ==
    c.x < b.min_x \/ c.x > b.max_x \/ c.y < b.min_y \/ c.y > b.max_y

\* Board b with a mark forced on c, whether c is on the board or not.
Forced(b, c, p) == [b EXCEPT !.hash = hash_insert(b.hash, c, p)]

\* C8: on every board, for every coordinate c outside the bounds and either
\* player, insert returns the OutOfBounds error and no board; the bounds are
\* checked first, so even a map that held c would not report occupancy.
C8_InsertOutside ==
    \A b \in Boards : \A c \in Around(b), p \in Player :
        Outside(b, c) =>
            /\ insert(b, c, p) = Err("OutOfBounds")
            /\ \A q \in Player : insert(Forced(b, c, q), c, p) = Err("OutOfBounds")

\* A move typed outside a board that holds marks was rejected as such.
C8_Witness ==
    /\ last.op = "rejected"
    /\ last.err = "OutOfBounds"
    /\ state.tag = "NextTurn"
    /\ state.board.hash # EmptyHash

(***************************************************************************)
(* C9: insert rejects an occupied cell                                     *)
(***************************************************************************)

\* Every insert on an occupied cell of a board fails with error err.
OccupiedFailsWith(err) ==
    \A b \in Boards : \A c \in DOMAIN b.hash, p \in Player :
        /\ insert(b, c, p) = Err(err)
        /\ Err(err) # Err("OutOfBounds")

SameBounds(b1, b2) ==
    /\ b1.min_x = b2.min_x
    /\ b1.max_x = b2.max_x
    /\ b1.min_y = b2.min_y
    /\ b1.max_y = b2.max_y

\* Board b2 is board b1 with cell c marked and nothing else changed.
OnlyCell(b1, b2, c) ==
    /\ SameBounds(b1, b2)
    /\ DOMAIN b2.hash = DOMAIN b1.hash \cup {c}
    /\ \A k \in DOMAIN b1.hash : k # c => b2.hash[k] = b1.hash[k]

\* Every successful insert on a board returns that board plus one mark.
InsertFrame ==
    \A b \in Boards : \A c \in Around(b), p \in Player :
        insert(b, c, p).ok => OnlyCell(b, insert(b, c, p).val, c)

\* The board a NextTurn step leaves behind is still the board it found,
\* marks and bounds, next to the one new mark of an accepted move.
MarksKept ==
    (pc = "loop" /\ state.tag = "NextTurn") =>
        /\ last'.op = "accepted" =>
              /\ Free(state.board, last'.coordinates)
              /\ OnlyCell(state.board, last'.board, last'.coordinates)
        /\ state'.tag = "NextTurn" =>
              /\ SameBounds(state.board, state'.board)
              /\ \A k \in DOMAIN state.board.hash :
                    /\ k \in DOMAIN state'.board.hash
                    /\ state'.board.hash[k] = state.board.hash[k]

\* C10: the board a successful insert returns has the receiver's bounds and
\* the receiver's occupant or emptiness at every other coordinate, and no
\* later move removes or reassigns a mark.
C10_Frame == []InsertFrame /\ [][MarksKept]_vars

\* A third mark placed while the first two are still where they were.
C10_Witness ==
    /\ MoveAccepted
    /\ Cardinality(DOMAIN last.board.hash) >= 3
    /\ \E c \in DOMAIN last.board.hash :
          c # last.coordinates /\ last.board.hash[c] = last.player

(***************************************************************************)
(* C6: every game ends                                                     *)
(***************************************************************************)

\* The loop keeps iterating while it can: a line is always typed in the end.
FairSpec == Spec /\ WF_vars(Next)

Marks(b) == Cardinality(DOMAIN b.hash)

Cells(g) == (g.max_x - g.min_x + 1) * (g.max_y - g.min_y + 1)

\* How far a state is along the game: StartGame, then NextTurn by the
\* number of marks, then Won and Draw, then EndGame.
Rank(s) ==
    CASE s.tag = "StartGame" -> 0
      [] s.tag = "NextTurn"  -> 1 + Marks(s.board)
      [] s.tag = "Won"       -> 2 + Cells(game)
      [] s.tag = "Draw"      -> 2 + Cells(game)
      [] s.tag = "EndGame"   -> 3 + Cells(game)

\* The step is the retry self-loop NextTurn(player, board) to itself.
RetryStep == last'.op = "rejected" /\ last'.retry

\* An accepted move adds exactly one mark, and a turn is never taken on a
\* full board.
MovesCounted ==
    /\ (pc = "loop" /\ state.tag = "NextTurn" /\ last'.op = "accepted")
          => /\ Marks(last'.board) = Marks(state.board) + 1
             /\ Marks(last'.board) <= Cells(game)
             /\ pc' = "loop" => state'.tag \in {"NextTurn", "Won", "Draw"}
    /\ state'.tag = "NextTurn" => Marks(state'.board) < Cells(game)

\* Every step of the loop moves the state forward, but for the retry.
OnlyRetryCycles ==
    (pc = "loop" /\ pc' = "loop") =>
        \/ Rank(state') > Rank(state)
        \/ state' = state /\ state.tag = "NextTurn" /\ RetryStep

NoEmptyCell(b) ==
    \A x \in b.min_x..b.max_x, y \in b.min_y..b.max_y :
        Coordinates(x, y) \in DOMAIN b.hash

\* C11: on every board made by inserts, is_draw holds exactly when the
\* number of occupied cells is at least width * height, that is when no
\* cell is empty; on the tic-tac-toe preset exactly when nine are occupied.
C11_IsDraw ==
    \A b \in Boards :
        /\ is_draw(b) <=> (Marks(b) >= Cells(game))
        /\ is_draw(b) <=> NoEmptyCell(b)
        /\ game = TIC_TAC_TOE => (is_draw(b) <=> Marks(b) = 9)

\* The ninth mark of a tic-tac-toe game: the board is a draw board.
C11_Witness ==
    /\ game = TIC_TAC_TOE
    /\ MoveAccepted
    /\ Marks(last.board) = 9
    /\ is_draw(last.board)

(***************************************************************************)
(* C12: the start position                                                 *)
(***************************************************************************)

\* The board with no mark and the four bounds of config g.
EmptyBoardOf(g) ==
    [hash |-> EmptyHash, min_x |-> g.min_x, max_x |-> g.max_x,
     min_y |-> g.min_y, max_y |-> g.max_y]

\* The one step taken from StartGame: to NextTurn with player X and the
\* empty board of the config, and nothing was read for it.
StartsFixed ==
    (pc = "loop" /\ state = StartGame) =>
        /\ state' = NextTurn("X", EmptyBoardOf(game))
        /\ Marks(state'.board) = 0
        /\ last' = [op |-> "start_game"]
        /\ pc' = "loop"

\* C12: the only transition from StartGame is to NextTurn(X, empty board
\* with the four bounds of the config), for every config, and the step
\* reads no input.
C12_Start ==
    /\ [](\A g \in Configs : start_game(g) = NextTurn("X", EmptyBoardOf(g)))
    /\ [][StartsFixed]_vars

\* The state after the first iteration, on the board that is not square.
C12_Witness ==
    /\ game = WIDE
    /\ last.op = "start_game"
    /\ state.tag = "NextTurn"
    /\ state.player = first
    /\ state.board = new(WIDE)

(***************************************************************************)
(* C13: Won and Draw lead to EndGame, and EndGame is final                 *)
(***************************************************************************)

\* turn on Won, Draw and EndGame returns EndGame, whatever would be typed.
TurnEnds ==
    \A move \in MoveInputs, answer \in RetryInputs :
        /\ \A p \in Player : turn(game, Won(p), move, answer) = Returned(EndGame)
        /\ turn(game, Draw, move, answer) = Returned(EndGame)
        /\ turn(game, EndGame, move, answer) = Returned(EndGame)

\* The loop takes Won and Draw to EndGame, calls no handler on EndGame,
\* and does nothing once main has returned.
EndsAndStops ==
    /\ (pc = "loop" /\ state.tag \in {"Won", "Draw"}) =>
          state' = EndGame /\ pc' = "loop"
    /\ state = EndGame =>
          state' = EndGame /\ last' = last /\ pc = "loop" /\ pc' = "exit"
    /\ pc = "exit" => state = EndGame

\* C13: the state after Won(player), for either player, and after Draw is
\* EndGame; turn on EndGame gives EndGame; and once the state is EndGame
\* the loop runs no further iteration.
C13_EndGameFinal == []TurnEnds /\ [][EndsAndStops]_vars

\* main returned after a game that a player won.
C13_Witness ==
    /\ pc = "exit"
    /\ state = EndGame
    /\ last.op = "won"

(***************************************************************************)
(* C14: win detection on every board geometry                              *)
(***************************************************************************)

\* C14: on every board of every config, the non-square one included, and
\* for every coordinate on the board, affected_rows and is_winning_move
\* return a result: neither aborts.
C14_NeverAborts ==
    \A b \in Boards : \A c \in Around(b) :
        InBounds(b, c) =>
            /\ ~affected_rows(b, c).panic
            /\ ~is_winning_move(b, c, game.goal).panic

(***************************************************************************)
(* C15: Player::next and Player::first                                     *)
(***************************************************************************)

\* The player whose turn it is, or who won, when the state names one.
Named == IF state.tag \in {"NextTurn", "Won"} THEN {state.player} ELSE {}

\* C15: there are exactly two players; for each player p, next(p) is the
\* other player and next(next(p)) is p; first is always X; and the
\* players a game names are among the two.
C15_NextInvolution ==
    /\ Cardinality(Player) = 2
    /\ \A p \in Player :
          /\ next(p) \in Player
          /\ next(p) # p
          /\ next(next(p)) = p
    /\ first = "X"
    /\ first \in Player
    /\ Named \subseteq Player

\* After two accepted moves the turn is back with the first player.
C15_Witness ==
    /\ MoveAccepted
    /\ state.tag = "NextTurn"
    /\ Marks(state.board) = 2
    /\ last.player = next(first)
    /\ state.player = next(next(first))
    /\ state.player = first

(***************************************************************************)
(* C16: parsing coordinates                                                *)
(***************************************************************************)

\* The texts handed to Coordinates::from_str: the typed lines, trimmed.
ParsedTexts == { trim(move.text) : move \in { m \in MoveInputs : m.io } }

\* s is an optional minus and digits, a comma, an optional minus and digits,
\* with the comma at position k.
HasFormAt(s, k) ==
    /\ s[k] = ","
    /\ IsIntLiteral(SubSeq(s, 1, k - 1))
    /\ IsIntLiteral(SubSeq(s, k + 1, Len(s)))

HasForm(s) == \E k \in 1..Len(s) : HasFormAt(s, k)

\* Parsing s gave the two integers written left and right of the comma.
YieldsWritten(s) ==
    \A k \in 1..Len(s) :
        HasFormAt(s, k) =>
            from_str(s) = Ok(Coordinates(literal_value(SubSeq(s, 1, k - 1)),
                                         literal_value(SubSeq(s, k + 1, Len(s)))))

\* C16: whenever a move is awaited, parsing the text typed fails exactly
\* when the whole text is not of the form -?digits,-?digits; for every text
\* of that form it succeeds and yields the two written integers, whatever
\* the bounds of the board.
C16_ParseExact ==
    state.tag = "NextTurn" =>
        \A s \in ParsedTexts :
            /\ from_str(s).ok <=> HasForm(s)
            /\ YieldsWritten(s)

(***************************************************************************)
(* impl ToString for Board (src/lib/board.rs)                              *)
(***************************************************************************)

\* Iterator::max on a non-empty collection of lengths.
max(S) == CHOOSE m \in S : \A n \in S : n <= m

\* "-".repeat(n), and the padding of format!.
repeat(ch, n) == [i \in 1..n |-> ch]

cell_size(b) ==
    max({ Len(to_string(s)) : s \in {b.min_x, b.max_x, b.min_y, b.max_y} }) * 2 + 3

\* vec!["-".repeat(cell_size); (min_x..=max_x).len()]
line_split(b) ==
    [i \in 1..range_len(b.min_x, b.max_x) |-> repeat("-", cell_size(b))]

\* format!("{:?}", player)
player_debug(player) == <<player>>

\* hash.get(..).map_or(format!("{},{}", x, y), |player| format!("{:?}", player))
cell_value(b, x, y) ==
    IF contains_key(b.hash, Coordinates(x, y))
    THEN player_debug(get(b.hash, Coordinates(x, y)))
    ELSE to_string(x) \o <<",">> \o to_string(y)

\* The padding put on the right only.
pad_right(text, width) ==
    IF Len(text) >= width THEN text ELSE text \o repeat(" ", width - Len(text))

\* The fill of format!("{: ^1$}"): half of the padding, rounded down, goes
\* to the left and the rest to the right.
pad_center(text, padding) ==
    repeat(" ", padding \div 2) \o text \o repeat(" ", padding - (padding \div 2))

\* format!("{: ^1$}", text, width): a longer text is written as it is.
center(text, width) ==
    IF Len(text) >= width THEN text ELSE pad_center(text, width - Len(text))

\* The closure of the outer map: the cells of row y, x ascending.
cell_row(b, y) ==
    [i \in 1..range_len(b.min_x, b.max_x) |->
        center(cell_value(b, b.min_x + i - 1, y), cell_size(b))]

\* (min_y..=max_y).map(..): the rows, y ascending.
cell_rows(b) ==
    [j \in 1..range_len(b.min_y, b.max_y) |-> cell_row(b, b.min_y + j - 1)]

\* Itertools::intersperse
intersperse(s, element) ==
    IF Len(s) = 0 THEN <<>>
    ELSE [k \in 1..(2 * Len(s) - 1) |-> IF k % 2 = 1 THEN s[(k + 1) \div 2] ELSE element]

\* join(sep) on a sequence of strings.
RECURSIVE join(_, _)
join(ss, sep) ==
    IF Len(ss) = 0 THEN <<>>
    ELSE IF Len(ss) = 1 THEN ss[1]
    ELSE ss[1] \o sep \o join(Tail(ss), sep)

\* .map(|row| row.join("|"))
joined_rows(rows) == [k \in 1..Len(rows) |-> join(rows[k], <<"|">>)]

\* Board::to_string (ToString for Board)
Board_to_string(b) ==
    join(joined_rows(intersperse(cell_rows(b), line_split(b))), <<"\n">>)

(***************************************************************************)
(* C17: the layout of the rendered board                                   *)
(***************************************************************************)

\* The pieces of text t between the occurrences of the character ch.
RECURSIVE SplitOn(_, _)
SplitOn(t, ch) ==
    IF \A i \in 1..Len(t) : t[i] # ch THEN <<t>>
    ELSE LET k == CHOOSE i \in 1..Len(t) : t[i] = ch /\ \A j \in 1..(i - 1) : t[j] # ch
         IN  <<SubSeq(t, 1, k - 1)>> \o SplitOn(SubSeq(t, k + 1, Len(t)), ch)

\* What cell (x, y) of board b shows: the tag of its player, or "x,y".
Shown(b, x, y) ==
    IF Coordinates(x, y) \in DOMAIN b.hash
    THEN <<b.hash[Coordinates(x, y)]>>
    ELSE to_string(x) \o <<",">> \o to_string(y)

\* cell is text between spaces, as many on the left as on the right or one
\* fewer.
Centered(cell, text) ==
    \E left \in 0..Len(cell) : \E right \in {left, left + 1} :
        cell = repeat(" ", left) \o text \o repeat(" ", right)

\* cells are the W cells of row y of board b, each cw characters wide.
CellLine(b, cells, y, cw) ==
    /\ Len(cells) = b.max_x - b.min_x + 1
    /\ \A i \in 1..Len(cells) :
          /\ Len(cells[i]) = cw
          /\ Centered(cells[i], Shown(b, b.min_x + i - 1, y))

\* runs are W runs of cw dashes.
SeparatorLine(b, runs, cw) ==
    /\ Len(runs) = b.max_x - b.min_x + 1
    /\ \A i \in 1..Len(runs) : runs[i] = repeat("-", cw)

\* lines are the 2*H - 1 lines of board b with cells of width cw: cell rows
\* with y ascending, alternating with separator rows.
LinesLaidOut(b, lines, cw) ==
    /\ Len(lines) = 2 * (b.max_y - b.min_y + 1) - 1
    /\ \A r \in 1..(b.max_y - b.min_y + 1) :
          CellLine(b, SplitOn(lines[2 * r - 1], "|"), b.min_y + r - 1, cw)
    /\ \A r \in 1..(b.max_y - b.min_y) :
          SeparatorLine(b, SplitOn(lines[2 * r], "|"), cw)

\* The text of board b has the layout with cells of width cw.
Layout(b, cw) == LinesLaidOut(b, SplitOn(Board_to_string(b), "\n"), cw)

\* The four bounds of board b.
BoundsOf(b) == {b.min_x, b.max_x, b.min_y, b.max_y}

\* The number of digits of v, and the length of v written in decimal, where
\* a minus sign counts.
DigitCount(v) == Len(NatStr(IF v < 0 THEN 0 - v ELSE v))

TextLength(v) == Len(to_string(v))

\* The text the repository's test expects of the empty tic-tac-toe board.
FreshTicTacToeText ==
    join(<< <<" ", "-", "1", ",", "-", "1", " ", "|", " ", "0", ",", "-", "1", " ", " ", "|", " ", "1", ",", "-", "1", " ", " ">>,
            <<"-", "-", "-", "-", "-", "-", "-", "|", "-", "-", "-", "-", "-", "-", "-", "|", "-", "-", "-", "-", "-", "-", "-">>,
            <<" ", "-", "1", ",", "0", " ", " ", "|", " ", " ", "0", ",", "0", " ", " ", "|", " ", " ", "1", ",", "0", " ", " ">>,
            <<"-", "-", "-", "-", "-", "-", "-", "|", "-", "-", "-", "-", "-", "-", "-", "|", "-", "-", "-", "-", "-", "-", "-">>,
            <<" ", "-", "1", ",", "1", " ", " ", "|", " ", " ", "0", ",", "1", " ", " ", "|", " ", " ", "1", ",", "1", " ", " ">> >>,
         <<"\n">>)

\* C17 as stated: every rendered board has the layout with the cell width
\* 2 * (most digits among the four bounds) + 3.
C17_LayoutDigits ==
    \A b \in Boards : Layout(b, 2 * max({ DigitCount(v) : v \in BoundsOf(b) }) + 3)

\* C17 as amended: every rendered board has 2*H - 1 lines, cell rows (y
\* ascending, x ascending within a row, W centred cells joined by '|',
\* showing "x,y" or the player's tag) alternating with rows of W runs of
\* dashes joined by '|', with the cell width 2 * (longest decimal text among
\* the four bounds, a minus sign counted) + 3.
C17_LayoutText ==
    /\ Board_to_string(new(TIC_TAC_TOE)) = FreshTicTacToeText
    /\ \A b \in Boards : Layout(b, 2 * max({ TextLength(v) : v \in BoundsOf(b) }) + 3)

\* A tic-tac-toe board rendered with marks of both players and empty cells.
C17_Witness ==
    /\ game = TIC_TAC_TOE
    /\ MoveAccepted
    /\ Marks(last.board) = 4
    /\ Len(SplitOn(Board_to_string(last.board), "\n")) = 5
    /\ Board_to_string(last.board) # FreshTicTacToeText

(***************************************************************************)
(* C18: affected_rows on the tic-tac-toe board                             *)
(***************************************************************************)

\* The full row and the full column of the tic-tac-toe board through c.
RowThrough(c) == [i \in 1..3 |-> Coordinates(i - 2, c.y)]

ColumnThrough(c) == [i \in 1..3 |-> Coordinates(c.x, i - 2)]

\* The two diagonals of length 3 of the tic-tac-toe board.
DescendingDiagonal == [i \in 1..3 |-> Coordinates(i - 2, i - 2)]

AscendingDiagonal == [i \in 1..3 |-> Coordinates(i - 2, 2 - i)]

\* The lines of the tic-tac-toe board through c.
LinesThrough(c) ==
    {RowThrough(c), ColumnThrough(c)}
    \cup {d \in {DescendingDiagonal, AscendingDiagonal} : \E i \in 1..3 : d[i] = c}

\* How many lines go through c: 4 for the centre, 3 for a corner,
\* 2 for an edge midpoint.
LineCount(c) ==
    IF c.x = 0 /\ c.y = 0 THEN 4
    ELSE IF c.x # 0 /\ c.y # 0 THEN 3
    ELSE 2

\* rows are exactly the lines through c, each once and each of 3 cells.
ExactlyLines(rows, c) ==
    /\ ~rows.panic
    /\ { rows.val[i] : i \in 1..Len(rows.val) } = LinesThrough(c)
    /\ Len(rows.val) = LineCount(c)
    /\ \A i \in 1..Len(rows.val) : Len(rows.val[i]) = 3

\* C18: on every tic-tac-toe board of a game, whatever marks it holds,
\* affected_rows(c) is what it is on the empty board: the full row, the
\* full column and each length-3 diagonal that contains c; 4 lines for the
\* centre, 3 for a corner and 2 for an edge midpoint.
C18_TicTacToeLines ==
    game = TIC_TAC_TOE =>
        \A b \in Boards : \A c \in Around(b) :
            InBounds(b, c) =>
                /\ affected_rows(b, c) = affected_rows(new(TIC_TAC_TOE), c)
                /\ ExactlyLines(affected_rows(b, c), c)

\* A tic-tac-toe board with marks, on which the centre has its 4 lines and
\* the edge midpoint (-1,0) its 2.
C18_Witness ==
    /\ game = TIC_TAC_TOE
    /\ MoveAccepted
    /\ Marks(last.board) >= 5
    /\ Len(affected_rows(last.board, Coordinates(0, 0)).val) = 4
    /\ Len(affected_rows(last.board, Coordinates(-1, 0)).val) = 2
    /\ Len(affected_rows(last.board, Coordinates(1, -1)).val) = 3

(***************************************************************************)
(* C19: the shape of the line enumeration                                  *)
(***************************************************************************)

\* The steps from c along d that stay on board b.
StepsOnBoard(b, c, d) ==
    { i \in (0 - (b.max_x - b.min_x) - (b.max_y - b.min_y))
            ..((b.max_x - b.min_x) + (b.max_y - b.min_y)) :
        InBounds(b, Step(c, d, i)) }

\* The sequence of the steps of set I from step lo on.
StepsFrom(c, d, I, lo) == [k \in 1..Cardinality(I) |-> Step(c, d, lo + k - 1)]

\* The smallest element of a non-empty set of integers.
Least(I) == CHOOSE m \in I : \A n \in I : m <= n

\* The maximal sequence of collinear on-board cells through c along d.
MaximalLine(b, c, d) ==
    StepsFrom(c, d, StepsOnBoard(b, c, d), Least(StepsOnBoard(b, c, d)))

\* rows are 1 to 4 different sequences of on-board cells, each containing c
\* and each the maximal line through c in one of the four directions.
LinesShaped(b, c, rows) ==
    /\ Len(rows) \in 1..4
    /\ \A i, j \in 1..Len(rows) : i # j => rows[i] # rows[j]
    /\ \A i \in 1..Len(rows) :
          /\ \A k \in 1..Len(rows[i]) : InBounds(b, rows[i][k])
          /\ contains(rows[i], c)
          /\ \E d \in Directions : rows[i] = MaximalLine(b, c, d)

\* affected_rows(c) on board b returned rows of that shape.
ShapedAt(b, c, rows) == ~rows.panic /\ LinesShaped(b, c, rows.val)

\* C19: on every board of every config and for every on-board coordinate,
\* affected_rows returns between 1 and 4 sequences, pairwise different, of
\* on-board cells, each containing the coordinate and each the maximal
\* line through it in its direction.
C19_LineShape ==
    \A b \in Boards : \A c \in Around(b) :
        InBounds(b, c) => ShapedAt(b, c, affected_rows(b, c))

(***************************************************************************)
(* C20: board well-formedness                                              *)
(***************************************************************************)

\* Board b has the four bounds of config g, every occupied coordinate of it
\* passes the bound checks and holds a player, and it has no more marks
\* than the board has cells.
WellFormed(b, g) ==
    /\ b.min_x = g.min_x /\ b.max_x = g.max_x
    /\ b.min_y = g.min_y /\ b.max_y = g.max_y
    /\ \A c \in DOMAIN b.hash : InBounds(b, c) /\ b.hash[c] \in Player
    /\ Marks(b) <= Cells(g)

\* The boards of the current state: the one awaiting a move and the one
\* the last call produced.
GameBoards == Boards \cup (IF state.tag = "NextTurn" THEN {state.board} ELSE {})

\* C20: every board reached from Board::new(config) by successful and
\* failed inserts is well formed, and so is every board a further insert
\* on it returns.
C20_WellFormed ==
    /\ \A b \in GameBoards : WellFormed(b, game)
    /\ \A b \in Boards : \A c \in Around(b), p \in Player :
          insert(b, c, p).ok => WellFormed(insert(b, c, p).val, game)

\* A tic-tac-toe board of eight marks kept after an insert outside it failed.
C20_Witness ==
    /\ game = TIC_TAC_TOE
    /\ last.op = "rejected"
    /\ last.err = "OutOfBounds"
    /\ state.tag = "NextTurn"
    /\ Marks(state.board) = 8

(***************************************************************************)
(* C21: turn parity                                                        *)
(***************************************************************************)

\* The number of marks of player p on board b.
MarksOf(b, p) == Cardinality({ c \in DOMAIN b.hash : b.hash[c] = p })

\* The marks of X minus the marks of O on board b.
Lead(b) == MarksOf(b, "X") - MarksOf(b, "O")

\* In NextTurn(player, board) the lead of X is 0 when X is to move and 1
\* when O is to move; on no board of a game is a player two marks ahead.
TurnParity ==
    /\ state.tag = "NextTurn" =>
          Lead(state.board) = (IF state.player = "X" THEN 0 ELSE 1)
    /\ \A b \in GameBoards : Lead(b) \in {0, 1}

\* An accepted move places the mark of the player to move and, when
\* next_turn returns and the game goes on, hands the turn to the other
\* player; a rejected move that is retried leaves the turn and the board
\* as they were.
Alternates ==
    (pc = "loop" /\ state.tag = "NextTurn") =>
        /\ last'.op = "accepted" =>
              /\ last'.player = state.player
              /\ last'.board.hash[last'.coordinates] = state.player
              /\ (pc' = "loop" /\ state'.tag = "NextTurn") =>
                    /\ state'.player = next(state.player)
                    /\ state'.player # state.player
                    /\ state'.board = last'.board
        /\ (last'.op = "rejected" /\ state'.tag = "NextTurn") => state' = state

\* C21: in every reachable NextTurn(player, board) the number of X marks
\* minus the number of O marks is 0 when player is X and 1 when player is
\* O; the players alternate on accepted moves, a retry never hands the
\* turn over, and no player is ever two marks ahead.
C21_TurnParity == []TurnParity /\ [][Alternates]_vars

\* O is still to move, one mark behind, after a rejected move was retried.
C21_Witness ==
    /\ last.op = "rejected"
    /\ last.retry
    /\ state.tag = "NextTurn"
    /\ state.player = "O"
    /\ MarksOf(state.board, "X") = 3
    /\ MarksOf(state.board, "O") = 2

(***************************************************************************)
(* C22: 8-bit arithmetic of the line enumeration                           *)
(***************************************************************************)

\* Game::GOMOKU
GOMOKU == [min_x |-> -7, max_x |-> 7, min_y |-> -7, max_y |-> 7, goal |-> 5]

\* The board of all signed 8-bit coordinates, and a small board at the
\* upper end of the 8-bit range.
FULL_RANGE == [min_x |-> I8_MIN, max_x |-> I8_MAX, min_y |-> I8_MIN, max_y |-> I8_MAX, goal |-> 5]

UPPER_END == [min_x |-> 120, max_x |-> I8_MAX, min_y |-> 120, max_y |-> I8_MAX, goal |-> 3]

\* Configs with signed 8-bit bounds, min_x <= max_x and min_y <= max_y.
EightBitConfigs == Configs \cup {GOMOKU, FULL_RANGE, UPPER_END}

\* v is a signed 8-bit value.
Fits8(v) == I8_MIN <= v /\ v <= I8_MAX

\* The values of elements of s with v added, before any wrapping.
Sums(s, v) == { s[i] + v : i \in 1..Len(s) }

\* The values affected_rows computes on board b for coordinate c, before
\* any wrapping: the two sizes, their negations, and every offset added to
\* the coordinate.
Intermediates(b, c) ==
    {b.max_x - b.min_x, b.max_y - b.min_y, 0 - x_size(b), 0 - y_size(b)}
    \cup Sums(symmetric_range(x_size(b)), c.x)
    \cup Sums(symmetric_range(y_size(b)), c.y)

\* The cells of the board of config g.
OnBoardOf(g) == { Coordinates(x, y) : x \in g.min_x..g.max_x, y \in g.min_y..g.max_y }

\* Every value affected_rows computes on the board of g fits 8 bits.
NoOverflowOn(g) ==
    \A c \in OnBoardOf(g) : \A v \in Intermediates(new(g), c) : Fits8(v)

\* C22: whenever a move is awaited, for every config with signed 8-bit
\* bounds, the two presets included, and every coordinate on its board,
\* every value affected_rows computes stays within -128..127.
C22_NoOverflow ==
    state.tag = "NextTurn" => \A g \in EightBitConfigs : NoOverflowOn(g)

====
